---- MODULE Spec2Model ----
(***************************************************************************)
(* Model of the Menu plugin, packages/g6/src/plugin/widget/menu/index.ts.  *)
(*                                                                         *)
(* JavaScript runs one event-loop turn at a time, so every action below is *)
(* one turn: a trigger event runs onMenuShow up to its `await` (or to its  *)
(* end when nothing is awaited), the settlement of an awaited promise runs *)
(* the rest of that invocation, a document click runs the listeners        *)
(* attached to document.body, destroy() runs whole.                        *)
(***************************************************************************)
EXTENDS Integers, FiniteSets, Sequences, TLC

(* ------------------------------ bounds --------------------------------- *)
MaxTriggers == 3           \* number of trigger events in one behaviour

(* ------------------------- values of the model ------------------------- *)
NoItem == "undefined"      \* e.itemId of an event on the canvas background
Items == {"node1", "edge1"}
Targets == Items \cup {NoItem}
ItemTypeOf(i) == IF i = "node1" THEN "node" ELSE IF i = "edge1" THEN "edge" ELSE "canvas"

NoListener == 0            \* a listener field holding undefined / null

\* markup: what innerHTML holds.  src says where it came from, item and fetch
\* identify the provider call that produced it.
Markup(src, item, fetch) == [src |-> src, item |-> item, fetch |-> fetch]
EmptyMarkup == Markup("empty", NoItem, 0)
LoadingMarkup == Markup("loading", NoItem, 0)

\* content values: a string, or an HTMLElement whose serialisation is html
Text(m) == [kind |-> "string", html |-> m]
Element(m) == [kind |-> "element", html |-> m]
Undefined == [kind |-> "undefined", html |-> EmptyMarkup]
isString(c) == c.kind = "string"
outerHTML(c) == c.html
ContentKinds == {"string", "element"}
MakeContent(kind, m) == IF kind = "string" THEN Text(m) ELSE Element(m)

(* ------------------------------ constants ------------------------------ *)
DefaultOffsetX == 6
DefaultOffsetY == 6
VerticalCorrection == 55
DefaultItemTypes == {"node", "edge", "combo"}

getDefaultCfgs ==
  [ offsetX |-> DefaultOffsetX,
    offsetY |-> DefaultOffsetY,
    handleMenuClick |-> FALSE,
    itemTypes |-> DefaultItemTypes,
    trigger |-> "click",
    loadingContent |-> Text(LoadingMarkup) ]

(* ------------------------------- state --------------------------------- *)
VARIABLES
  options,        \* this.options, fixed after construction
  graph,          \* the host graph: getSize() and the container's offsets
  menu,           \* the overlay element: style, innerHTML, parent, click listeners
  body,           \* click listeners attached to document.body
  this,           \* handler, handleMenuClickWrapper, currentTarget, asyncMenu
  firstClick,     \* handlers whose closure variable triggeredByFirstClick is true
  pending,        \* invocations of onMenuShow suspended at the await
  openingClick,   \* the DOM click that triggered the menu has not reached body yet
  nextId,         \* number of trigger events so far
  last,           \* history: the last turn and what it was given
  trig,           \* history: the most recent trigger event, and the pair it makes
                  \* with the one before it
  lastAccepted,   \* history: the most recent accepted trigger event
  stale,          \* history: fetches on an item overtaken by an accepted trigger
                  \* that carries another item identifier
  failed          \* history: some awaited fetch was rejected

vars == << options, graph, menu, body, this, firstClick, pending, openingClick,
           nextId, last, trig, lastAccepted, stale, failed >>

(* --------------------------- geometry inputs --------------------------- *)
\* graph.getSize() and graph.container.offsetLeft / offsetTop
Graphs == { [ width |-> 100, height |-> 100, offsetLeft |-> 10, offsetTop |-> 20 ] }
ViewportPoints == { [x |-> 30, y |-> 60] }
BBoxes == { [width |-> 20, height |-> 40] }

(* ------------------------ the trigger event, e ------------------------- *)
Event(itemId, viewport) ==
  [ itemId |-> itemId, itemType |-> ItemTypeOf(itemId), viewport |-> viewport ]
Events == { Event(i, v) : i \in Targets, v \in ViewportPoints }
NoEvent == Event(NoItem, [x |-> 0, y |-> 0])

\* what the content provider returns for an event: a string, an element or a promise
ProviderKinds == {"string", "element", "promise"}

(* ---------------------------- history records -------------------------- *)
NoBBox == [width |-> 0, height |-> 0]
NoTurn ==
  [ act |-> "init", id |-> 0, e |-> NoEvent, shouldBegin |-> FALSE,
    bbox |-> NoBBox, accepted |-> FALSE, listening |-> FALSE, visible |-> FALSE ]
NoTrigger ==
  [ id |-> 0, itemId |-> NoItem, accepted |-> FALSE, deferred |-> FALSE, calls |-> 0,
    awaited |-> FALSE, overlap |-> FALSE, pair |-> FALSE, pairCalls |-> 0 ]

(* ------------------------- the object's methods ------------------------ *)
\* The methods work on s, a record of the fields they read and write:
\* s.menu, s.body, s.this, s.firstClick.
State == [ menu |-> menu, body |-> body, this |-> this, firstClick |-> firstClick ]

\* mutant: the outside-click handler is not detached
removeMenuEventListenerKeepsHandler(s) ==
  LET handleMenuClickWrapper == s.this.handleMenuClickWrapper
  IN  IF handleMenuClickWrapper # NoListener
        THEN [ s EXCEPT !.menu.listeners = @ \ {handleMenuClickWrapper},
                        !.this.handleMenuClickWrapper = NoListener ]
        ELSE s

removeMenuEventListener(s) ==
  LET handleMenuClickWrapper == s.this.handleMenuClickWrapper
      handler == s.this.handler
      s1 == IF handleMenuClickWrapper # NoListener
              THEN [ s EXCEPT !.menu.listeners = @ \ {handleMenuClickWrapper},
                              !.this.handleMenuClickWrapper = NoListener ]
              ELSE s
  IN  IF handler # NoListener
        THEN [ s1 EXCEPT !.body = @ \ {handler} ]
        ELSE s1

\* mutant: hiding leaves the listeners attached
onMenuHideKeepsListeners(s) ==
  [ s EXCEPT !.menu.visibility = "hidden" ]

\* lines 248-254
onMenuHide(s) ==
  removeMenuEventListener([ s EXCEPT !.menu.visibility = "hidden" ])

\* mutant: the overflow tests use >= instead of >
PositionOverflowAtEdge(e, bbox) ==
  LET x == e.viewport.x + graph.offsetLeft + options.offsetX
      y == e.viewport.y + graph.offsetTop + options.offsetY - VerticalCorrection
  IN  [ x |-> IF x + bbox.width >= graph.width
                THEN x - (bbox.width + graph.offsetLeft + options.offsetX) ELSE x,
        y |-> IF y + bbox.height >= graph.height
                THEN y - (bbox.height + graph.offsetTop + options.offsetY) ELSE y ]

\* lines 162-178: the overlay's position for event e and measured bbox
Position(e, bbox) ==
  LET width == graph.width
      height == graph.height
      offsetX == options.offsetX
      offsetY == options.offsetY
      graphTop == graph.offsetTop
      graphLeft == graph.offsetLeft
      x == e.viewport.x + graphLeft + offsetX
      y == e.viewport.y + graphTop + offsetY - VerticalCorrection
  IN  [ x |-> IF x + bbox.width > width THEN x - (bbox.width + graphLeft + offsetX) ELSE x,
        y |-> IF y + bbox.height > height THEN y - (bbox.height + graphTop + offsetY) ELSE y ]

\* mutant: the item type of the event is not looked at
PassesFilterAnyItem(e) ==
  IF e.itemId = NoItem
    THEN "canvas" \in options.itemTypes
    ELSE TRUE

\* mutant: an event on the canvas always passes
PassesFilterAnyCanvas(e) ==
  IF e.itemId = NoItem
    THEN TRUE
    ELSE e.itemType \in options.itemTypes

\* lines 143-155: the item-type filter
PassesFilter(e) ==
  IF e.itemId = NoItem
    THEN "canvas" \in options.itemTypes
    ELSE e.itemType \in options.itemTypes

\* innerHTML for a content value, lines 184-189 and 205-209
Inject(s, c) ==
  [ s EXCEPT !.menu.innerHTML = IF isString(c) THEN c.html ELSE outerHTML(c) ]

\* lines 211-231: the listeners of the invocation with identity id
AttachListeners(s, id) ==
  LET s1 == removeMenuEventListener(s)
      s2 == IF options.handleMenuClick
              THEN [ s1 EXCEPT !.this.handleMenuClickWrapper = id,
                               !.menu.listeners = @ \cup {id} ]
              ELSE s1
      triggeredByFirstClick == options.trigger = "click"
  IN  [ s2 EXCEPT !.firstClick = IF triggeredByFirstClick THEN @ \cup {id} ELSE @ \ {id},
                  !.body = @ \cup {id},
                  !.this.handler = id ]

\* lines 201-210: after asyncMenu is known, for the invocation on itemId
ShowAsyncMenu(s, itemId, id) ==
  IF itemId # s.this.currentTarget
    THEN s
    ELSE AttachListeners(Inject(s, s.this.asyncMenu), id)

\* the fetch of invocation id on item: what its promise resolves to
Resolved(kind, item, id) == MakeContent(kind, Markup("async", item, id))
\* what the provider returns synchronously for item
Returned(kind, item) == MakeContent(kind, Markup("sync", item, 0))

\* line 197: the cached asyncMenu is used instead of awaiting a fetch
ReusesCache(s, e) ==
  ~(e.itemId # s.this.currentTarget \/ s.this.asyncMenu = Undefined)

\* mutant: currentTarget is recorded before the filter and the predicate
onMenuShowRecordsTargetFirst(s, e, sb, kind, bbox, id) ==
  LET s1 == [ onMenuHide(s) EXCEPT !.this.currentTarget = e.itemId ]
      pos == Position(e, bbox)
      s2 == [ s1 EXCEPT !.menu.top = pos.y, !.menu.left = pos.x,
                        !.menu.visibility = "visible" ]
      loading == Inject(s2, options.loadingContent)
  IN  IF ~PassesFilter(e) THEN onMenuHide(s1)
      ELSE IF ~sb THEN s1
      ELSE IF kind # "promise"
        THEN AttachListeners(Inject(s2, Returned(kind, e.itemId)), id)
      ELSE IF ReusesCache(onMenuHide(s), e)
        THEN ShowAsyncMenu(loading, e.itemId, id)
      ELSE loading

\* lines 139-232 up to the await: event e, shouldBegin(e) = sb, getContent(e)
\* returning a value of kind, the overlay measuring bbox; id names the invocation
onMenuShow(s, e, sb, kind, bbox, id) ==
  LET s1 == onMenuHide(s)
      pos == Position(e, bbox)
      s2 == [ s1 EXCEPT !.menu.top = pos.y, !.menu.left = pos.x,
                        !.menu.visibility = "visible" ]
      loading == Inject(s2, options.loadingContent)
  IN  IF ~PassesFilter(e) THEN onMenuHide(s1)
      ELSE IF ~sb THEN s1
      ELSE IF kind # "promise"
        THEN AttachListeners(Inject(s2, Returned(kind, e.itemId)), id)
      ELSE IF ReusesCache(loading, e)
        THEN ShowAsyncMenu(loading, e.itemId, id)
      ELSE [ loading EXCEPT !.this.currentTarget = e.itemId ]

\* the invocation is left suspended at line 199
Awaits(s, e, sb, kind) ==
  PassesFilter(e) /\ sb /\ kind = "promise" /\ ~ReusesCache(onMenuHide(s), e)

\* number of times the invocation calls options.getContent, lines 160 and 199
GetContentCalls(s, e, sb, kind) ==
  IF ~(PassesFilter(e) /\ sb) THEN 0
  ELSE IF Awaits(s, e, sb, kind) THEN 2
  ELSE 1

\* mutant: the awaited value is not stored in asyncMenu
onMenuShowResumeDropsValue(s, p, value) ==
  ShowAsyncMenu(s, p.itemId, p.id)

\* lines 199-232 after the await: the fetch of invocation p resolved to value
onMenuShowResume(s, p, value) ==
  ShowAsyncMenu([ s EXCEPT !.this.asyncMenu = value ], p.itemId, p.id)

\* lines 222-228: the handlers on document.body receive a click
BodyClick(s) ==
  LET hides == \E h \in s.body : h \notin s.firstClick
      s1 == [ s EXCEPT !.firstClick = @ \ s.body ]
  IN  IF hides THEN onMenuHide(s1) ELSE s1

\* lines 256-269
destroy(s) ==
  [ removeMenuEventListener(s) EXCEPT !.menu.attached = FALSE ]

(* ------------------------------- Init ---------------------------------- *)
ItemTypeSets == { DefaultItemTypes, {"node", "canvas"} }
Configs ==
  { [ getDefaultCfgs EXCEPT !.itemTypes = it, !.trigger = tr, !.handleMenuClick = hc ] :
      it \in ItemTypeSets, tr \in {"click", "contextmenu"}, hc \in BOOLEAN }

\* lines 114-137: the overlay is created hidden at top 0 and appended
InitWith(configs, graphs) ==
  /\ options \in configs
  /\ graph \in graphs
  /\ menu = [ visibility |-> "hidden", top |-> 0, left |-> 0, innerHTML |-> EmptyMarkup,
              attached |-> TRUE, listeners |-> {} ]
  /\ body = {}
  /\ this = [ handler |-> NoListener, handleMenuClickWrapper |-> NoListener,
              currentTarget |-> NoItem, asyncMenu |-> Undefined ]
  /\ firstClick = {}
  /\ pending = {}
  /\ openingClick = FALSE
  /\ nextId = 0
  /\ last = NoTurn
  /\ trig = NoTrigger
  /\ lastAccepted = NoTrigger
  /\ stale = {}
  /\ failed = FALSE

Init == InitWith(Configs, Graphs)

Destroyed == ~menu.attached

Commit(s) ==
  /\ menu' = s.menu
  /\ body' = s.body
  /\ this' = s.this
  /\ firstClick' = s.firstClick

Turn(act, id) ==
  [ NoTurn EXCEPT !.act = act, !.id = id, !.listening = body # {},
                  !.visible = menu.visibility = "visible" ]

(* ------------------------------ actions -------------------------------- *)
\* the host graph emits the trigger event e
Trigger(e, sb, kind, bbox) ==
  LET id == nextId + 1
      accepted == PassesFilter(e) /\ sb
      awaits == Awaits(State, e, sb, kind)
      calls == GetContentCalls(State, e, sb, kind)
      \* the trigger before this one was on the same item and still awaits its fetch
      pair == /\ trig.awaited /\ trig.itemId = e.itemId /\ e.itemId # NoItem
              /\ \E p \in pending : p.id = trig.id
      t == [ id |-> id, itemId |-> e.itemId, accepted |-> accepted,
             deferred |-> accepted /\ kind = "promise", calls |-> calls,
             awaited |-> awaits, overlap |-> pending # {},
             pair |-> pair, pairCalls |-> trig.calls + calls ]
  IN  /\ ~Destroyed
      /\ ~openingClick
      /\ nextId < MaxTriggers
      /\ Commit(onMenuShow(State, e, sb, kind, bbox, id))
      /\ pending' = IF awaits THEN pending \cup { [ id |-> id, itemId |-> e.itemId ] }
                               ELSE pending
      /\ openingClick' = (options.trigger = "click")
      /\ nextId' = id
      /\ last' = [ Turn("trigger", id) EXCEPT !.e = e, !.shouldBegin = sb, !.bbox = bbox,
                                               !.accepted = accepted ]
      /\ trig' = t
      /\ lastAccepted' = IF accepted THEN t ELSE lastAccepted
      /\ stale' = IF accepted
                     THEN stale \cup { p.id : p \in { q \in pending :
                                                        /\ q.itemId # NoItem
                                                        /\ e.itemId # NoItem
                                                        /\ q.itemId # e.itemId } }
                     ELSE stale
      /\ UNCHANGED << options, graph, failed >>

\* the promise awaited by invocation p resolves to a string or an element
Resolve(p, kind) ==
  /\ p \in pending
  /\ Commit(onMenuShowResume(State, p, Resolved(kind, p.itemId, p.id)))
  /\ pending' = pending \ {p}
  /\ last' = Turn("resolve", p.id)
  /\ UNCHANGED << options, graph, openingClick, nextId, trig, lastAccepted,
                  stale, failed >>

\* the promise awaited by invocation p rejects: the invocation ends at line 199
Reject(p) ==
  /\ p \in pending
  /\ pending' = pending \ {p}
  /\ failed' = TRUE
  /\ last' = Turn("reject", p.id)
  /\ UNCHANGED << options, graph, menu, body, this, firstClick, openingClick, nextId,
                  trig, lastAccepted, stale >>

\* the DOM click that triggered the menu bubbles to document.body
OpeningClick ==
  /\ openingClick
  /\ Commit(BodyClick(State))
  /\ openingClick' = FALSE
  /\ last' = Turn("openingClick", nextId)
  /\ UNCHANGED << options, graph, pending, nextId, trig, lastAccepted, stale, failed >>

\* any other click reaches document.body
DocumentClick ==
  /\ ~openingClick
  /\ Commit(BodyClick(State))
  /\ last' = Turn("click", 0)
  /\ UNCHANGED << options, graph, pending, openingClick, nextId, trig, lastAccepted,
                  stale, failed >>

\* the host calls destroy()
Destroy ==
  /\ ~Destroyed
  /\ ~openingClick
  /\ Commit(destroy(State))
  /\ last' = Turn("destroy", 0)
  /\ UNCHANGED << options, graph, pending, openingClick, nextId, trig, lastAccepted,
                  stale, failed >>

Next ==
  \/ \E e \in Events, sb \in BOOLEAN, kind \in ProviderKinds, bbox \in BBoxes :
        Trigger(e, sb, kind, bbox)
  \/ \E p \in pending, kind \in ContentKinds : Resolve(p, kind)
  \/ \E p \in pending : Reject(p)
  \/ OpeningClick
  \/ DocumentClick
  \/ Destroy

Spec == Init /\ [][Next]_vars

(* ------------------- the positioning, on wider inputs ------------------ *)
PosGraphs ==
  { [ width |-> 100, height |-> 100, offsetLeft |-> l, offsetTop |-> tp ] :
      l \in {0, 10}, tp \in {0, 20} }
PosConfigs ==
  { [ getDefaultCfgs EXCEPT !.offsetX = ox, !.offsetY = oy ] :
      ox \in {0, DefaultOffsetX}, oy \in {0, DefaultOffsetY} }
PosViewportPoints == { [x |-> vx, y |-> vy] : vx \in {30, 64, 65}, vy \in {60, 89, 90} }
PosBBoxes == { [width |-> w, height |-> h] : w \in {0, 20}, h \in {0, 40} }
PosEvents == { Event("node1", v) : v \in PosViewportPoints }

InitPos == InitWith(PosConfigs, PosGraphs)

NextPos ==
  \/ \E e \in PosEvents, bbox \in PosBBoxes : Trigger(e, TRUE, "string", bbox)
  \/ OpeningClick

SpecPos == InitPos /\ [][NextPos]_vars

(* ------------------------------- claims -------------------------------- *)
Visible == menu.visibility = "visible"
AfterTrigger == last.act = "trigger"

\* C1: the value resolved for a fetch on item A that an accepted trigger on
\* another item overtook before it resolved is never written into the
\* overlay's content.
C1_StaleNeverInjected ==
  \A id \in stale : ~(menu.innerHTML.src = "async" /\ menu.innerHTML.fetch = id)

\* C2: at most one outside-click listener is attached to document.body and at
\* most one click-handler listener to the overlay, in every reachable state;
\* an accepted trigger that runs to its end leaves exactly one outside-click
\* listener, also when the menu was already open.
C2_AtMostOneListener ==
  /\ Cardinality(body) <= 1
  /\ Cardinality(menu.listeners) <= 1
  /\ (AfterTrigger /\ last.accepted /\ ~trig.awaited) => Cardinality(body) = 1

C2_Witness ==
  /\ AfterTrigger /\ trig.id >= 2 /\ last.listening
  /\ last.accepted /\ ~trig.awaited
  /\ Cardinality(body) = 1 /\ Cardinality(menu.listeners) = 1

\* C3: two consecutive accepted triggers on the same item, both given a
\* deferred value, the first still awaiting its fetch when the second arrives:
\* the content provider is invoked once in total across the two.
C3_ProviderInvokedOnce ==
  (AfterTrigger /\ trig.pair /\ trig.deferred) => trig.pairCalls = 1

\* C4: destroy() removes the overlay from its container, and from then on no
\* outside-click listener and no click-handler listener is attached, also
\* after an outstanding fetch resolves.
C4_DestroyLeavesNoListeners ==
  /\ last.act = "destroy" => ~menu.attached
  /\ ~menu.attached => (body = {} /\ menu.listeners = {})

\* C5: after a trigger event carrying an item of type T, the overlay is
\* visible iff T is in itemTypes and shouldBegin returned true; otherwise it
\* is hidden.
C5_ItemDisplayedIff ==
  (AfterTrigger /\ last.e.itemId # NoItem) =>
    (Visible <=> (last.e.itemType \in options.itemTypes /\ last.shouldBegin))

C5_Witness ==
  /\ AfterTrigger /\ last.e.itemId # NoItem /\ ~last.visible
  /\ last.e.itemType \in options.itemTypes /\ last.shouldBegin
  /\ Visible

\* C6 as stated: after a trigger event carrying no item identifier, the
\* overlay is visible iff 'canvas' is in itemTypes.
C6_CanvasDisplayedIffOriginal ==
  (AfterTrigger /\ last.e.itemId = NoItem) =>
    (Visible <=> "canvas" \in options.itemTypes)

\* C6 amended: after a trigger event carrying no item identifier, the overlay
\* is visible iff 'canvas' is in itemTypes and shouldBegin returned true.
C6_CanvasDisplayedIff ==
  (AfterTrigger /\ last.e.itemId = NoItem) =>
    (Visible <=> ("canvas" \in options.itemTypes /\ last.shouldBegin))

C6_Witness ==
  /\ AfterTrigger /\ last.e.itemId = NoItem /\ ~last.visible
  /\ "canvas" \in options.itemTypes /\ last.shouldBegin
  /\ Visible

\* C7: the click that opened the menu never hides it, and every other
\* document click received while the outside-click listener is attached
\* hides the menu, with synchronous and with deferred content, for trigger
\* 'click' and for trigger 'contextmenu'.
C7_OutsideClickHides ==
  /\ (last.act = "openingClick" /\ last.visible) => Visible
  /\ (last.act = "click" /\ last.listening) => ~Visible

\* C8: after an accepted trigger, with x = vx + containerLeft + offsetX and
\* y = vy + containerTop + offsetY - 55, the applied left is
\* x - (W + containerLeft + offsetX) if x + W > Wc and x otherwise, and the
\* applied top is y - (H + containerTop + offsetY) if y + H > Hc and y
\* otherwise.
C8_PositionClamped ==
  (AfterTrigger /\ last.accepted) =>
    LET vx == last.e.viewport.x
        vy == last.e.viewport.y
        W == last.bbox.width
        H == last.bbox.height
        x == vx + graph.offsetLeft + options.offsetX
        y == vy + graph.offsetTop + options.offsetY - 55
    IN  /\ menu.left = IF x + W > graph.width
                         THEN x - (W + graph.offsetLeft + options.offsetX) ELSE x
        /\ menu.top = IF y + H > graph.height
                        THEN y - (H + graph.offsetTop + options.offsetY) ELSE y

C8_Witness ==
  /\ AfterTrigger /\ last.accepted
  /\ last.e.viewport.x + graph.offsetLeft + options.offsetX + last.bbox.width > graph.width
  /\ last.e.viewport.y + graph.offsetTop + options.offsetY - 55 + last.bbox.height
       <= graph.height
  /\ menu.left = last.e.viewport.x - last.bbox.width
  /\ menu.top = last.e.viewport.y + graph.offsetTop + options.offsetY - 55

\* C9: last-target-wins: when the most recent accepted trigger was issued while
\* a fetch was outstanding and every fetch has since resolved, the overlay's
\* content belongs to the item of that trigger.
C9_LastTargetWins ==
  (pending = {} /\ ~failed /\ lastAccepted.id # 0 /\ lastAccepted.overlap) =>
    /\ menu.innerHTML.src \in {"sync", "async"}
    /\ menu.innerHTML.item = lastAccepted.itemId

\* C10: when no fetch is outstanding and asyncMenu is set, asyncMenu is the
\* value resolved for the item currentTarget names; and a trigger that reuses
\* the cache injects content resolved for its own item.
C10_TokenConsistent ==
  /\ (pending = {} /\ ~failed /\ this.asyncMenu # Undefined) =>
        this.asyncMenu.html.item = this.currentTarget
  /\ (AfterTrigger /\ trig.deferred /\ ~trig.awaited /\ ~failed) =>
        menu.innerHTML.item = last.e.itemId

\* C11: every trigger first hides the overlay and detaches the listeners of
\* the previous menu; when onMenuShow returns from a trigger rejected by the
\* filter or the predicate, the overlay is hidden and neither the
\* outside-click listener nor the click-handler listener is attached.
C11_RejectedLeavesHidden ==
  /\ AfterTrigger => (body \subseteq {last.id} /\ menu.listeners \subseteq {last.id})
  /\ (AfterTrigger /\ ~last.accepted) =>
        (~Visible /\ body = {} /\ menu.listeners = {})

C11_Witness ==
  /\ AfterTrigger /\ ~last.accepted
  /\ last.visible /\ last.listening /\ options.handleMenuClick
  /\ ~Visible /\ body = {} /\ menu.listeners = {}

C13_RejectedFrame ==
  [][ (last'.act = "trigger" /\ ~last'.accepted) =>
        /\ trig'.calls = 0
        /\ this'.currentTarget = this.currentTarget
        /\ this'.asyncMenu = this.asyncMenu
        /\ this'.handler = this.handler
        /\ menu'.innerHTML = menu.innerHTML
        /\ menu'.top = menu.top
        /\ menu'.left = menu.left
        /\ menu'.attached = menu.attached
        /\ menu'.visibility = "hidden"
        /\ firstClick' = firstClick
        /\ pending' = pending ]_vars

C13_Witness ==
  /\ AfterTrigger /\ ~last.accepted /\ last.visible
  /\ last.e.itemId # this.currentTarget
  /\ this.asyncMenu # Undefined
  /\ menu.innerHTML.src = "async"
  /\ ~Visible

\* C14: whenever the overlay (still in its container) is hidden, no
\* outside-click listener is attached to document.body and no click-handler
\* listener to the overlay.
C14_HiddenNoListeners ==
  (~Visible /\ menu.attached) => (body = {} /\ menu.listeners = {})

\* C15: a visible overlay (still in its container) can be dismissed: an
\* outside-click listener is attached to document.body or a fetch is still
\* outstanding, also after a fetch was rejected.
C15_VisibleDismissable ==
  (Visible /\ menu.attached) => (body # {} \/ pending # {})

====
